---- MODULE Spec2Model ----
(***************************************************************************)
(* A model of hsfs.core.vector_db_client.VectorDbClient: the namespace     *)
(* maps built by init (), the search protocol of find_neighbors () with    *)
(* its adaptive over-fetch, read (), the filter compilation and the        *)
(* result rewriting.                                                       *)
(*                                                                         *)
(* Python values are modelled as follows.  None is the string "None" where *)
(* a name is expected, the number 0 where a ceiling is expected (the code  *)
(* tests both with `not x`, and a cached ceiling is never 0) and the value *)
(* NullV in a result row.  A dict is a function; a dict of dicts is a      *)
(* function of functions.  The order of the keys of a dict is not          *)
(* modelled: the _source projection is the set of the keys.                *)
(***************************************************************************)
EXTENDS Integers, Sequences, FiniteSets, TLC

(***************************************************************************)
(* Bounds of the model.                                                    *)
(***************************************************************************)
MaxJoins == 1      \* joins of a query, besides the primary scan
MaxHits  == 2      \* hits of one response of the index

(***************************************************************************)
(* The feature groups the queries are drawn from.  Feature group 1 lives   *)
(* in a project index (non-empty column prefix), feature group 2 in an     *)
(* index of its own, feature group 3 has no embedding index, feature group *)
(* 4 shares the project index of feature group 1.                          *)
(***************************************************************************)
FgIds == {1, 2, 3, 4}

NoIndex == [index_name |-> "None", col_prefix |-> "", embeddings |-> {}]

FeatureGroups ==
    [id \in FgIds |->
       CASE id = 1 ->
              [features    |-> {"id", "ts", "emb"},
               types       |-> [id |-> "bigint", ts |-> "timestamp",
                                emb |-> "array<float>"],
               primary_key |-> <<"id">>,
               embedding_index |-> [index_name |-> "proj", col_prefix |-> "p1_",
                                    embeddings |-> {"emb"}]]
         [] id = 2 ->
              [features    |-> {"key", "day", "vec"},
               types       |-> [key |-> "bigint", day |-> "date",
                                vec |-> "array<float>"],
               primary_key |-> <<"key", "day">>,
               embedding_index |-> [index_name |-> "idx2", col_prefix |-> "",
                                    embeddings |-> {"vec"}]]
         [] id = 3 ->
              [features    |-> {"id", "x"},
               types       |-> [id |-> "bigint", x |-> "bigint"],
               primary_key |-> <<"id">>,
               embedding_index |-> NoIndex]
         [] OTHER ->
              [features    |-> {"id", "emb"},
               types       |-> [id |-> "bigint", emb |-> "array<float>"],
               primary_key |-> <<"id">>,
               embedding_index |-> [index_name |-> "proj", col_prefix |-> "p4_",
                                    embeddings |-> {"emb"}]]]

\* `if fg.embedding_index:` -- a feature group has an embedding index or None.
HasEmbedding(fg) == FeatureGroups[fg].embedding_index.index_name # "None"

ColPrefix(fg) == FeatureGroups[fg].embedding_index.col_prefix

Range(s) == {s[i] : i \in DOMAIN s}

PrimaryKeys(fg) == Range(FeatureGroups[fg].primary_key)

(***************************************************************************)
(* A query is its primary scan followed by its joins; a scan is the left   *)
(* feature group of a (sub)query, the features selected from it and the    *)
(* prefix of the join (the primary scan is wrapped in a join of prefix "", *)
(* and a join prefix None is read as "").                                  *)
(***************************************************************************)
JoinPrefixes == {"", "j_"}

Scans == UNION {[fg : {g}, left_features : SUBSET FeatureGroups[g].features,
                 prefix : JoinPrefixes] : g \in FgIds}

Queries == UNION {{q \in [1..n -> Scans] : q[1].prefix = ""} : n \in 1..(1 + MaxJoins)}

(***************************************************************************)
(* The state: the query the client was built for, the client's fields and  *)
(* the callers' positions in find_neighbors () and read ().                *)
(***************************************************************************)
VARIABLES
    query,                       \* self._query
    phase,                       \* "new", "ready" (init () returned) or "failed" (init () raised)
    embedding_features,          \* self._embedding_features, its keys as [fg, name]
    fg_vdb_col_fg_col_map,       \* self._fg_vdb_col_fg_col_map
    fg_col_vdb_col_map,          \* self._fg_col_vdb_col_map
    fg_vdb_col_td_col_map,       \* self._fg_vdb_col_td_col_map
    fg_id_to_vdb_pks,            \* self._fg_id_to_vdb_pks
    fg_embedding_map,            \* self._fg_embedding_map
    embedding_fg_by_join_index,  \* self._embedding_fg_by_join_index
    td_embedding_feature_names,  \* self._td_embedding_feature_names
    index_result_limit_k,        \* self._index_result_limit_k, 0 for a missing entry
    pc,                          \* each caller's position
    frame,                       \* each caller's arguments and local variables
    sent,                        \* the search requests each caller sent in its call
    received,                    \* what each caller got in its call: the kind and the number of
                                 \* hits of the first response, the last response, and the
                                 \* ceilings cached when the call began
    outcome,                     \* how each caller's call ended
    probed,                      \* the index names a probe request was sent to
    serving_keys,                \* self._serving_keys (None stands as no serving key)
    serving_key_by_serving_index, \* self._serving_key_by_serving_index
    vector_db                    \* how the vector database answers: "any" way it may, or
                                 \* "reports_max_k": hits to a search, the maximum k to a probe

mapvars == <<embedding_features, fg_vdb_col_fg_col_map, fg_col_vdb_col_map,
             fg_vdb_col_td_col_map, fg_id_to_vdb_pks, fg_embedding_map,
             embedding_fg_by_join_index, td_embedding_feature_names>>

callvars == <<pc, frame, sent, received, outcome, probed>>

\* What the client is given and never assigns.
given == <<query, serving_keys, vector_db>>

\* What no search assigns.
clientvars == <<given, serving_key_by_serving_index, phase, mapvars>>

vars == <<given, phase, mapvars, index_result_limit_k, callvars,
          serving_key_by_serving_index>>

\* The empty dict.
EmptyDict == [z \in {} |-> z]

(***************************************************************************)
(* init (): the three loops of the construction.                           *)
(***************************************************************************)
\* query.featuregroups: the feature groups of the query and of its joins.
featuregroups(q) == {q[i].fg : i \in DOMAIN q}

\* The first loop: the embedding features of the query's feature groups.
InitEmbeddingFeatures(q) ==
    UNION {{[fg |-> g, name |-> n] :
              n \in FeatureGroups[g].embedding_index.embeddings
                      \cap FeatureGroups[g].features} :
           g \in {h \in featuregroups(q) : HasEmbedding(h)}}

\* The columns a scan registers: its selected features, then its primary keys.
ScanColumns(scan) == scan.left_features \cup PrimaryKeys(scan.fg)

\* vdb_col_fg_col_map of one scan: prefixed column -> feature (its name).
ScanVdbColFgCol(scan) ==
    LET pfx == ColPrefix(scan.fg)
        ns  == ScanColumns(scan)
    IN  [c \in {pfx \o n : n \in ns} |-> CHOOSE n \in ns : pfx \o n = c]

\* fg_col_vdb_col_map of one scan: feature name -> prefixed column.
ScanFgColVdbCol(scan) ==
    [n \in ScanColumns(scan) |-> ColPrefix(scan.fg) \o n]

\* The second loop, from scan i on: m holds the four maps built so far; a
\* later scan of the same feature group overwrites the entries of an earlier.
RECURSIVE InitColumnMaps(_, _, _)
InitColumnMaps(q, i, m) ==
    IF i > Len(q) THEN m
    ELSE LET g == q[i].fg
         IN  IF ~HasEmbedding(g) THEN InitColumnMaps(q, i + 1, m)
             ELSE InitColumnMaps(q, i + 1,
                    [vdb_fg  |-> (g :> ScanVdbColFgCol(q[i])) @@ m.vdb_fg,
                     col_vdb |-> (g :> ScanFgColVdbCol(q[i])) @@ m.col_vdb,
                     pks     |-> (g :> [j \in DOMAIN FeatureGroups[g].primary_key |->
                                          ScanFgColVdbCol(q[i])[FeatureGroups[g].primary_key[j]]])
                                 @@ m.pks,
                     emb     |-> (g :> FeatureGroups[g].embedding_index) @@ m.emb])

\* A slip: the physical-to-final map holds the selected features only.
JoinVdbColTdCol_selected_only(scan) ==
    LET pfx == ColPrefix(scan.fg)
        ns  == scan.left_features
    IN  [c \in {pfx \o n : n \in ns} |->
           scan.prefix \o (CHOOSE n \in ns : pfx \o n = c)]

\* A slip: the physical-to-final map holds the columns of the projection only.
JoinVdbColTdCol_projection_only(scan) ==
    LET pfx == ColPrefix(scan.fg)
        ns  == ScanColumns(scan)
    IN  [c \in {pfx \o n : n \in ns} |->
           scan.prefix \o (CHOOSE n \in ns : pfx \o n = c)]

\* vdb_col_td_col_map of one join: prefixed column -> join prefix + feature name,
\* for every feature of the joined feature group.
JoinVdbColTdCol(scan) ==
    LET pfx == ColPrefix(scan.fg)
        ns  == FeatureGroups[scan.fg].features
    IN  [c \in {pfx \o n : n \in ns} |->
           scan.prefix \o (CHOOSE n \in ns : pfx \o n = c)]

\* A slip: a feature group that is registered already is registered again.
RECURSIVE InitJoinMaps_no_duplicate_check(_, _, _)
InitJoinMaps_no_duplicate_check(q, i, m) ==
    IF i > Len(q) THEN m
    ELSE LET g == q[i].fg
         IN  IF ~HasEmbedding(g) THEN InitJoinMaps_no_duplicate_check(q, i + 1, m)
             ELSE InitJoinMaps_no_duplicate_check(q, i + 1,
                    [td       |-> (g :> JoinVdbColTdCol(q[i])) @@ m.td,
                     by_index |-> ((i - 1) :> g) @@ m.by_index,
                     names    |-> m.names \cup
                                  {q[i].prefix \o e :
                                     e \in FeatureGroups[g].embedding_index.embeddings},
                     raised   |-> FALSE])

\* The third loop, from join i on (join index i - 1): it raises on a feature
\* group with an embedding index that is already registered.
RECURSIVE InitJoinMaps(_, _, _)
InitJoinMaps(q, i, m) ==
    IF i > Len(q) THEN m
    ELSE LET g == q[i].fg
         IN  IF ~HasEmbedding(g) THEN InitJoinMaps(q, i + 1, m)
             ELSE IF g \in DOMAIN m.td THEN [m EXCEPT !.raised = TRUE]
             ELSE InitJoinMaps(q, i + 1,
                    [td       |-> (g :> JoinVdbColTdCol(q[i])) @@ m.td,
                     by_index |-> ((i - 1) :> g) @@ m.by_index,
                     names    |-> m.names \cup
                                  {q[i].prefix \o e :
                                     e \in FeatureGroups[g].embedding_index.embeddings},
                     raised   |-> FALSE])

init ==
    /\ phase = "new"
    /\ LET cm == InitColumnMaps(query, 1,
                   [vdb_fg |-> EmptyDict, col_vdb |-> EmptyDict,
                    pks |-> EmptyDict, emb |-> EmptyDict])
           jm == InitJoinMaps(query, 1,
                   [td |-> EmptyDict, by_index |-> EmptyDict, names |-> {},
                    raised |-> FALSE])
       IN  /\ embedding_features' = InitEmbeddingFeatures(query)
           /\ fg_vdb_col_fg_col_map' = cm.vdb_fg
           /\ fg_col_vdb_col_map' = cm.col_vdb
           /\ fg_id_to_vdb_pks' = cm.pks
           /\ fg_embedding_map' = cm.emb
           /\ fg_vdb_col_td_col_map' = jm.td
           /\ embedding_fg_by_join_index' = jm.by_index
           /\ td_embedding_feature_names' = jm.names
           /\ phase' = IF jm.raised THEN "failed" ELSE "ready"
    /\ UNCHANGED <<given, serving_key_by_serving_index, index_result_limit_k, callvars>>

(***************************************************************************)
(* Filter trees.  A leaf is a Filter (feature, condition, value), a        *)
(* composite is a Logic (type, left, right); a missing side is None.       *)
(* OtherFilter stands for a value that is neither a Filter nor a Logic.    *)
(* The value of a leaf is a set of numbers: the list of an IN, the one     *)
(* number of any other condition.                                          *)
(***************************************************************************)
NoFilter == [node |-> "None"]

OtherFilter == [node |-> "Other"]

Leaf(fg, name, condition, value) ==
    [node |-> "Filter", fg |-> fg, name |-> name, condition |-> condition,
     value |-> value]

Logic(type, left, right) ==
    [node |-> "Logic", type |-> type, left |-> left, right |-> right]

\* Logic.Single (left_f): the composite hsfs builds around one filter.
Single(left) == Logic("SINGLE", left, NoFilter)

\* The result of a call that may raise: err is "" when it returned val.
Ok(val) == [err |-> "", val |-> val]

Raise(err) == [err |-> err, val |-> <<>>]

\* _filter_map
filter_map == [GT |-> "gt", GE |-> "gte", LT |-> "lt", LE |-> "lte"]

(***************************************************************************)
(* _check_filter (filter, fg): "" when the filter passes, else the line    *)
(* that raises.  A Logic checks its right side first.                      *)
(***************************************************************************)
RECURSIVE check_filter(_, _)
check_filter(filter, fg) ==
    IF filter.node = "None" THEN ""
    ELSE IF filter.node = "Filter"
         THEN IF filter.fg # fg THEN "L223" ELSE ""
    ELSE IF filter.node = "Logic"
         THEN LET r == check_filter(filter.right, fg)
              IN  IF r # "" THEN r ELSE check_filter(filter.left, fg)
    ELSE "L230"

(***************************************************************************)
(* _convert_filter (filter, col_prefix): the native clause of a leaf.      *)
(***************************************************************************)
convert_filter(filter, col_prefix) ==
    LET feature_name == IF col_prefix # "" THEN col_prefix \o filter.name
                        ELSE filter.name
        term == [q |-> "term", field |-> feature_name, value |-> filter.value]
    IN  CASE filter.condition = "EQ" -> Ok(term)
          [] filter.condition = "NE" ->
                Ok([q |-> "bool", must |-> <<>>, should |-> <<>>,
                    must_not |-> <<term>>, minimum_should_match |-> 0])
          [] filter.condition = "IN" ->
                Ok([q |-> "terms", field |-> feature_name, value |-> filter.value])
          [] filter.condition = "LK" ->
                Ok([q |-> "wildcard", field |-> feature_name, value |-> filter.value])
          [] filter.condition \in DOMAIN filter_map ->
                Ok([q |-> "range", field |-> feature_name,
                    op |-> filter_map[filter.condition], value |-> filter.value])
          [] OTHER -> Raise("L298")

(***************************************************************************)
(* _get_query_filter (filter, col_prefix): the list of native clauses of a *)
(* tree.  The SINGLE branch compiles its left side without the prefix, and *)
(* compiles its right side only when the left side gave no clause.         *)
(***************************************************************************)
RECURSIVE get_query_filter(_, _)
get_query_filter(filter, col_prefix) ==
    IF filter.node = "None" THEN Ok(<<>>)
    ELSE IF filter.node = "Filter"
         THEN LET c == convert_filter(filter, col_prefix)
              IN  IF c.err # "" THEN c ELSE Ok(<<c.val>>)
    ELSE IF filter.node = "Logic"
         THEN IF filter.type = "SINGLE"
              THEN LET l == get_query_filter(filter.left, "")
                   IN  IF l.err # "" \/ l.val # <<>> THEN l
                       ELSE get_query_filter(filter.right, col_prefix)
              ELSE IF filter.type \in {"AND", "OR"}
              THEN LET l == get_query_filter(filter.left, col_prefix)
                       r == get_query_filter(filter.right, col_prefix)
                   IN  IF l.err # "" THEN l
                       ELSE IF r.err # "" THEN r
                       ELSE IF filter.type = "AND"
                       THEN Ok(<<[q |-> "bool", must |-> l.val \o r.val,
                                  should |-> <<>>, must_not |-> <<>>,
                                  minimum_should_match |-> 0]>>)
                       ELSE Ok(<<[q |-> "bool", must |-> <<>>,
                                  should |-> l.val \o r.val, must_not |-> <<>>,
                                  minimum_should_match |-> 1]>>)
              ELSE Raise("L276")
    ELSE Raise("L278")

\* A slip: a key that key_map does not hold is left out of the result.
rewrite_result_key_skips_unknown(result_map, key_map) ==
    LET known == {key \in DOMAIN result_map : key \in DOMAIN key_map}
    IN  Ok([new_key \in {key_map[key] : key \in known} |->
              result_map[CHOOSE key \in known : key_map[key] = new_key]])

(***************************************************************************)
(* _rewrite_result_key (result_map, key_map): the map renamed, or the      *)
(* error of a key that key_map does not hold.  The key maps of the client  *)
(* are one-to-one, so no two keys are renamed to one name.                 *)
(***************************************************************************)
rewrite_result_key(result_map, key_map) ==
    IF \E key \in DOMAIN result_map : key \notin DOMAIN key_map
    THEN Raise("L305")
    ELSE Ok([new_key \in {key_map[key] : key \in DOMAIN result_map} |->
               result_map[CHOOSE key \in DOMAIN result_map :
                            key_map[key] = new_key]])

(***************************************************************************)
(* Values of a result row: null, a number, a vector, and what the coercion *)
(* makes of a number: a calendar date (days since the epoch), a point in   *)
(* time (seconds since the epoch), decoded bytes.                          *)
(***************************************************************************)
NullV == [t |-> "null", v |-> 0]

IntV(n) == [t |-> "int", v |-> n]

VecV == [t |-> "vector", v |-> 1]

\* `if not feature_value:` -- None and 0 are both false.
Falsy(value) == value.t = "null" \/ (value.t = "int" /\ value.v = 0)

\* Feature.is_complex (): an array, struct or map type.
is_complex(type) == type \in {"array<float>"}

\* datetime.utcfromtimestamp (v // 10**3).date (), as days since the epoch.
to_date(value) == [t |-> "date", v |-> (value.v \div 1000) \div 86400]

\* datetime.utcfromtimestamp (v // 10**3), as seconds since the epoch.
to_datetime(value) == [t |-> "datetime", v |-> value.v \div 1000]

\* base64.b64decode (v)
b64decode(value) == [t |-> "bytes", v |-> value.v]

(***************************************************************************)
(* _convert_to_pandas_type (schema, result), from schema feature i on.     *)
(***************************************************************************)
RECURSIVE convert_to_pandas_type(_, _, _)
convert_to_pandas_type(schema, i, result) ==
    IF i > Len(schema) THEN result
    ELSE LET feature == schema[i]
             feature_value == IF feature.name \in DOMAIN result
                              THEN result[feature.name] ELSE NullV
         IN  IF Falsy(feature_value)
             THEN convert_to_pandas_type(schema, i + 1, result)
             ELSE IF feature.type = "date"
             THEN convert_to_pandas_type(schema, i + 1,
                    [result EXCEPT ![feature.name] = to_date(feature_value)])
             ELSE IF feature.type = "timestamp"
             THEN convert_to_pandas_type(schema, i + 1,
                    [result EXCEPT ![feature.name] = to_datetime(feature_value)])
             ELSE IF \/ feature.type = "binary"
                     \/ /\ is_complex(feature.type)
                        /\ [fg |-> feature.fg, name |-> feature.fname]
                              \notin embedding_features
             THEN convert_to_pandas_type(schema, i + 1,
                    [result EXCEPT ![feature.name] = b64decode(feature_value)])
             ELSE convert_to_pandas_type(schema, i + 1, result)

RECURSIVE SetToSeq(_)
SetToSeq(S) ==
    IF S = {} THEN <<>>
    ELSE LET x == CHOOSE y \in S : TRUE IN <<x>> \o SetToSeq(S \ {x})

\* The schema the feature view hands to the client: the selected features of
\* every scan under their final names.
RECURSIVE SchemaOf(_, _)
SchemaOf(q, i) ==
    IF i > Len(q) THEN <<>>
    ELSE SetToSeq({[name |-> q[i].prefix \o n,
                    type |-> FeatureGroups[q[i].fg].types[n],
                    fg |-> q[i].fg, fname |-> n] : n \in q[i].left_features})
         \o SchemaOf(q, i + 1)

(***************************************************************************)
(* The callers and what they pass.                                         *)
(***************************************************************************)
Callers == {1, 2}

\* The index names of the embedding indexes, and one a caller may name itself.
IndexNames == {"proj", "idx2", "alt"}

IndexNameArgs == {"None", "alt"}

KValues == {1, 2}

\* 2**31 - 1, the k of the probe request.
ProbeK == 2147483647

NoFeature == [fg |-> 0, name |-> "None"]

FeatureArgs ==
    {NoFeature} \cup
    UNION {{[fg |-> g, name |-> n] : n \in FeatureGroups[g].features} : g \in FgIds}

FilterArgs ==
    {NoFilter,
     Single(Leaf(1, "id", "GE", {1})),
     Leaf(2, "key", "IN", {1, 2}),
     Logic("OR", Leaf(4, "id", "LT", {5}), Single(Leaf(4, "id", "NE", {1}))),
     OtherFilter,
     Leaf(1, "id", "XX", {1}),
     Logic("XOR", Leaf(1, "id", "EQ", {1}), Leaf(1, "id", "EQ", {1})),
     Logic("AND", Logic("OR", Leaf(3, "x", "EQ", {1}), Leaf(1, "id", "EQ", {1})),
                  Leaf(1, "id", "EQ", {1})),
     Logic("AND", Leaf(1, "id", "GT", {0}),
                  Logic("OR", Leaf(1, "id", "EQ", {1}), Leaf(1, "ts", "LE", {2})))}

(***************************************************************************)
(* The index: what it may answer to a search request.  Every index has one *)
(* maximum k, which a "requested k too large" error reports or leaves out  *)
(* (info_k = 0).                                                           *)
(***************************************************************************)
IndexMaxK == [proj |-> 7, idx2 |-> 7, alt |-> 2]

RowKinds == {"a", "b", "unmapped"}

\* The raw value the index holds for feature n of feature group fg.
RawValue(fg, n, kind) ==
    LET type == FeatureGroups[fg].types[n]
    IN  IF is_complex(type) THEN VecV
        ELSE IF kind = "b"
             THEN IF type \in {"date", "timestamp"} THEN NullV ELSE IntV(8)
        ELSE IntV(172805000)

\* A row of the projection of feature group fg; an "unmapped" row holds one
\* more column, which no map of the client knows.
Row(fg, kind) ==
    LET m == fg_vdb_col_fg_col_map[fg]
        base == [c \in DOMAIN m |-> RawValue(fg, m[c], kind)]
    IN  IF kind = "unmapped" THEN ("stray" :> IntV(1)) @@ base ELSE base

NoResponse == [kind |-> "none", hits |-> <<>>, exc |-> "", reason |-> "", info_k |-> 0]

HitsResponses(fg) ==
    LET kinds == IF vector_db = "reports_max_k" THEN {"a"} ELSE RowKinds
    IN  {[kind |-> "hits", hits |-> h, exc |-> "", reason |-> "", info_k |-> 0] :
           h \in UNION {[1..n -> {Row(fg, kind) : kind \in kinds}] : n \in 0..MaxHits}}

ErrorResponses(index_name) ==
    {[kind |-> "error", hits |-> <<>>, exc |-> "VectorDatabaseException",
      reason |-> r, info_k |-> i] :
       r \in {"REQUESTED_K_TOO_LARGE", "OTHER"}, i \in {0, IndexMaxK[index_name]}}
    \cup {[kind |-> "error", hits |-> <<>>, exc |-> "ConnectionError",
           reason |-> "", info_k |-> 0]}

Responses(fg, index_name) ==
    IF vector_db = "reports_max_k" THEN HitsResponses(fg)
    ELSE HitsResponses(fg) \cup ErrorResponses(index_name)

\* What may come back to the probe: an error, or hits, which the code never
\* reads (they stand here as no hits).
ProbeResponses(index_name) ==
    IF vector_db = "reports_max_k"
    THEN {[kind |-> "error", hits |-> <<>>, exc |-> "VectorDatabaseException",
           reason |-> "REQUESTED_K_TOO_LARGE", info_k |-> IndexMaxK[index_name]]}
    ELSE ErrorResponses(index_name)
         \cup {[kind |-> "hits", hits |-> <<>>, exc |-> "", reason |-> "", info_k |-> 0]}

(***************************************************************************)
(* The frame of a call and how a call ends.                                *)
(***************************************************************************)
NoBody == [size |-> 0, must |-> <<>>, source |-> {}]

NoFrame == [op |-> "none", fg |-> 0, col_name |-> "", k |-> 0,
            filter |-> NoFilter, index_name |-> "None", body |-> NoBody,
            results |-> <<>>]

\* No ceiling is cached.
NoLimits == [i \in IndexNames |-> 0]

\* Nothing received yet, in a call that began with the ceilings `limits`.
NoneReceived(limits) ==
    [first_kind |-> "none", first_len |-> 0, last |-> NoResponse,
     limit_at_call |-> limits]

\* `received` after one more response.
Receive(rcv, resp) ==
    [rcv EXCEPT !.first_kind = IF rcv.first_kind = "none" THEN resp.kind ELSE @,
                !.first_len = IF rcv.first_kind = "none" THEN Len(resp.hits) ELSE @,
                !.last = resp]

NoOutcome == [status |-> "none", site |-> "", rows |-> <<>>]

Returned(rows) == [status |-> "returned", site |-> "", rows |-> rows]

\* An exception leaves the call; site is the line that raised it.
Raised(site) == [status |-> "raised", site |-> site, rows |-> <<>>]

\* A call may start when the caller is in no call.
CanCall(c) == phase = "ready" /\ pc[c] = "idle"

\* The call is over: its result or exception is the caller's, its frame is
\* gone, and the caller may call again.
leave(c) ==
    /\ pc[c] = "done"
    /\ pc' = [pc EXCEPT ![c] = "idle"]
    /\ frame' = [frame EXCEPT ![c] = NoFrame]
    /\ sent' = [sent EXCEPT ![c] = <<>>]
    /\ received' = [received EXCEPT ![c] = NoneReceived(NoLimits)]
    /\ outcome' = [outcome EXCEPT ![c] = NoOutcome]
    /\ UNCHANGED <<clientvars, index_result_limit_k, probed>>

\* The call of caller c ends at once with an exception, before any request.
RaiseBeforeRequest(c, op, site) ==
    /\ pc' = [pc EXCEPT ![c] = "done"]
    /\ frame' = [frame EXCEPT ![c] = [NoFrame EXCEPT !.op = op]]
    /\ sent' = [sent EXCEPT ![c] = <<>>]
    /\ received' = [received EXCEPT ![c] = NoneReceived(index_result_limit_k)]
    /\ outcome' = [outcome EXCEPT ![c] = Raised(site)]

\* The call of caller c ends with an exception after it sent requests.
RaiseInCall(c, site) ==
    /\ pc' = [pc EXCEPT ![c] = "done"]
    /\ outcome' = [outcome EXCEPT ![c] = Raised(site)]

\* list (self._fg_vdb_col_fg_col_map.get (fg_id).keys ())
SourceProjection(fg) == DOMAIN fg_vdb_col_fg_col_map[fg]

\* The rows of the hits, rewritten and coerced one after the other: the first
\* row that cannot be rewritten raises.
RECURSIVE RewriteHits(_, _, _)
RewriteHits(hits, i, fg) ==
    IF i > Len(hits) THEN Ok(<<>>)
    ELSE LET r == rewrite_result_key(hits[i], fg_vdb_col_td_col_map[fg])
         IN  IF r.err # "" THEN r
             ELSE LET rest == RewriteHits(hits, i + 1, fg)
                  IN  IF rest.err # "" THEN rest
                      ELSE Ok(<<convert_to_pandas_type(SchemaOf(query, 1), 1, r.val)>>
                              \o rest.val)

(***************************************************************************)
(* find_neighbors ().  The scores of the hits (each returned as the        *)
(* distance 1 / score - 1 beside its row) and the query vector are left    *)
(* out: the rows are what is modelled.                                     *)
(***************************************************************************)
\* Lines 116-127: the embedding feature searched, or the line that raises.
embedding_feature_of(feature) ==
    IF feature = NoFeature
    THEN IF embedding_features = {} THEN Raise("L118")
         ELSE IF Cardinality(embedding_features) > 1 THEN Raise("L120")
         ELSE Ok(CHOOSE e \in embedding_features : TRUE)
    ELSE IF feature \in embedding_features THEN Ok(feature)
    ELSE Raise("L125")

\* Lines 116-150: the frame of the call with the request body built, or the
\* line that raises.
find_neighbors_request(feature, index_name, k, filter) ==
    LET ef == embedding_feature_of(feature)
    IN  IF ef.err # "" THEN ef
        ELSE LET fg == ef.val.fg
                 index == FeatureGroups[fg].embedding_index
                 checked == check_filter(filter, fg)
                 col_name == index.col_prefix \o ef.val.name
                 clauses == get_query_filter(filter, index.col_prefix)
             IN  IF checked # "" THEN Raise(checked)
                 ELSE IF clauses.err # "" THEN clauses
                 ELSE Ok([op |-> "find_neighbors", fg |-> fg,
                          col_name |-> col_name, k |-> k, filter |-> filter,
                          index_name |-> IF index_name = "None"
                                         THEN index.index_name ELSE index_name,
                          body |-> [size |-> k,
                                    must |-> <<[q |-> "knn", field |-> col_name, k |-> k],
                                               [q |-> "exists", field |-> col_name]>>
                                             \o clauses.val,
                                    source |-> SourceProjection(fg)],
                          results |-> <<>>])

\* self._opensearch_client.search (body, index): the request is sent (log
\* holds the requests the call sent before, rcv what it received before) and
\* resp is what comes back; an
\* error response raises at line `site`, hits become `results` and the call
\* goes on at `next`.
Search(c, fr, log, rcv, resp, site, next) ==
    /\ sent' = [sent EXCEPT ![c] = Append(log, [index |-> fr.index_name, body |-> fr.body])]
    /\ received' = [received EXCEPT ![c] = Receive(rcv, resp)]
    /\ IF resp.kind = "error"
       THEN /\ frame' = [frame EXCEPT ![c] = fr]
            /\ RaiseInCall(c, site)
       ELSE /\ frame' = [frame EXCEPT ![c] = [fr EXCEPT !.results = resp.hits]]
            /\ pc' = [pc EXCEPT ![c] = next]
            /\ outcome' = [outcome EXCEPT ![c] = NoOutcome]

\* A slip: the filter is checked and compiled after the first search is sent.
find_neighbors_search_first(c, feature, index_name, k, filter) ==
    /\ CanCall(c)
    /\ LET req  == find_neighbors_request(feature, index_name, k, NoFilter)
           late == find_neighbors_request(feature, index_name, k, filter)
       IN  IF req.err # ""
           THEN RaiseBeforeRequest(c, "find_neighbors", req.err)
           ELSE \E resp \in Responses(req.val.fg, req.val.index_name) :
                   IF late.err # "" /\ resp.kind = "hits"
                   THEN /\ sent' = [sent EXCEPT ![c] =
                                      <<[index |-> req.val.index_name, body |-> req.val.body]>>]
                        /\ received' = [received EXCEPT ![c] =
                                          Receive(NoneReceived(index_result_limit_k), resp)]
                        /\ frame' = [frame EXCEPT ![c] = req.val]
                        /\ RaiseInCall(c, late.err)
                   ELSE Search(c, IF late.err # "" THEN req.val ELSE late.val, <<>>,
                               NoneReceived(index_result_limit_k), resp, "L152", "test")
    /\ UNCHANGED <<clientvars, index_result_limit_k, probed>>

\* Lines 116-154: the checks, the request body and the first search.
find_neighbors(c, feature, index_name, k, filter) ==
    /\ CanCall(c)
    /\ LET req == find_neighbors_request(feature, index_name, k, filter)
       IN  IF req.err # ""
           THEN RaiseBeforeRequest(c, "find_neighbors", req.err)
           ELSE \E resp \in Responses(req.val.fg, req.val.index_name) :
                   Search(c, req.val, <<>>, NoneReceived(index_result_limit_k), resp,
                          "L152", "test")
    /\ UNCHANGED <<clientvars, index_result_limit_k, probed>>

\* A slip: the probe is sent whether or not a ceiling is cached.
limit_unknown_always(index_name) == TRUE

\* `if not self._index_result_limit_k.get (index_name)`
limit_unknown(index_name) == index_result_limit_k[index_name] = 0

\* A slip: the column prefix is not looked at.
overfetch_any_index(col_prefix, nhits, k) == nhits # k

\* Lines 157-160: the first response is short in a project index.
overfetch(col_prefix, nhits, k) == col_prefix # "" /\ nhits # k

\* Lines 157-164: whether to fetch more, and whether to probe first.
fn_overfetch_test(c) ==
    /\ pc[c] = "test"
    /\ LET fr == frame[c]
       IN  IF overfetch(ColPrefix(fr.fg), Len(fr.results), fr.k)
           THEN IF limit_unknown(fr.index_name)
                THEN /\ frame' = [frame EXCEPT ![c].body.must[1].k = ProbeK]
                     /\ pc' = [pc EXCEPT ![c] = "probe"]
                ELSE /\ pc' = [pc EXCEPT ![c] = "corrected_k"]
                     /\ UNCHANGED frame
           ELSE /\ pc' = [pc EXCEPT ![c] = "return"]
                /\ UNCHANGED frame
    /\ UNCHANGED <<clientvars, index_result_limit_k, sent, received,
                   outcome, probed>>

\* A slip: the reason of the error is not looked at.
reports_max_k_any_reason(resp) ==
    /\ resp.exc = "VectorDatabaseException"
    /\ resp.info_k # 0

\* Lines 172-177: the error reports the maximum k.
reports_max_k(resp) ==
    /\ resp.exc = "VectorDatabaseException"
    /\ resp.reason = "REQUESTED_K_TOO_LARGE"
    /\ resp.info_k # 0

\* A slip: what is cached is the corrected k of the call, not the maximum k.
fn_probe_caches_corrected_k(c) ==
    /\ pc[c] = "probe"
    /\ LET fr == frame[c]
       IN  \E resp \in ProbeResponses(fr.index_name) :
              /\ sent' = [sent EXCEPT ![c] =
                            Append(@, [index |-> fr.index_name, body |-> fr.body])]
              /\ received' = [received EXCEPT ![c] = Receive(@, resp)]
              /\ probed' = probed \cup {fr.index_name}
              /\ IF resp.kind = "hits"
                 THEN /\ pc' = [pc EXCEPT ![c] = "corrected_k"]
                      /\ UNCHANGED <<index_result_limit_k, outcome>>
                 ELSE IF reports_max_k(resp)
                 THEN /\ index_result_limit_k' =
                            [index_result_limit_k EXCEPT ![fr.index_name] =
                               IF resp.info_k < 3 * fr.k THEN resp.info_k ELSE 3 * fr.k]
                      /\ pc' = [pc EXCEPT ![c] = "corrected_k"]
                      /\ UNCHANGED outcome
                 ELSE /\ RaiseInCall(c, IF resp.exc = "VectorDatabaseException"
                                        THEN "L182" ELSE "L168")
                      /\ UNCHANGED index_result_limit_k
    /\ UNCHANGED <<clientvars, frame>>

\* A slip: the ceiling is cached under the index name of the embedding
\* index, whatever index name the caller passed.
fn_probe_caches_own_index(c) ==
    /\ pc[c] = "probe"
    /\ LET fr == frame[c]
       IN  \E resp \in ProbeResponses(fr.index_name) :
              /\ sent' = [sent EXCEPT ![c] =
                            Append(@, [index |-> fr.index_name, body |-> fr.body])]
              /\ received' = [received EXCEPT ![c] = Receive(@, resp)]
              /\ probed' = probed \cup {fr.index_name}
              /\ IF resp.kind = "hits"
                 THEN /\ pc' = [pc EXCEPT ![c] = "corrected_k"]
                      /\ UNCHANGED <<index_result_limit_k, outcome>>
                 ELSE IF reports_max_k(resp)
                 THEN /\ index_result_limit_k' =
                            [index_result_limit_k EXCEPT
                               ![fg_embedding_map[fr.fg].index_name] = resp.info_k]
                      /\ pc' = [pc EXCEPT ![c] = "corrected_k"]
                      /\ UNCHANGED outcome
                 ELSE /\ RaiseInCall(c, IF resp.exc = "VectorDatabaseException"
                                        THEN "L182" ELSE "L168")
                      /\ UNCHANGED index_result_limit_k
    /\ UNCHANGED <<clientvars, frame>>

\* Lines 165-182: the probe.  Its hits, if it has any, are dropped; a
\* VectorDatabaseException that reports the maximum k is caught and the
\* maximum cached; any other exception leaves the call.
fn_probe(c) ==
    /\ pc[c] = "probe"
    /\ LET fr == frame[c]
       IN  \E resp \in ProbeResponses(fr.index_name) :
              /\ sent' = [sent EXCEPT ![c] =
                            Append(@, [index |-> fr.index_name, body |-> fr.body])]
              /\ received' = [received EXCEPT ![c] = Receive(@, resp)]
              /\ probed' = probed \cup {fr.index_name}
              /\ IF resp.kind = "hits"
                 THEN /\ pc' = [pc EXCEPT ![c] = "corrected_k"]
                      /\ UNCHANGED <<index_result_limit_k, outcome>>
                 ELSE IF reports_max_k(resp)
                 THEN /\ index_result_limit_k' =
                            [index_result_limit_k EXCEPT ![fr.index_name] = resp.info_k]
                      /\ pc' = [pc EXCEPT ![c] = "corrected_k"]
                      /\ UNCHANGED outcome
                 ELSE /\ RaiseInCall(c, IF resp.exc = "VectorDatabaseException"
                                        THEN "L182" ELSE "L168")
                      /\ UNCHANGED index_result_limit_k
    /\ UNCHANGED <<clientvars, frame>>

Min(a, b) == IF a < b THEN a ELSE b

\* A slip: the cached ceiling is not applied.
corrected_k_uncapped(index_name, k) == 3 * k

\* min (self._index_result_limit_k.get (index_name, k), 3 * k)
corrected_k(index_name, k) ==
    Min(IF index_result_limit_k[index_name] # 0
        THEN index_result_limit_k[index_name] ELSE k, 3 * k)

\* A slip: the size of the request is raised with the k of its knn clause.
fn_corrected_k_resizes(c) ==
    /\ pc[c] = "corrected_k"
    /\ frame' = [frame EXCEPT
                    ![c].body.must[1].k = corrected_k(frame[c].index_name, frame[c].k),
                    ![c].body.size = corrected_k(frame[c].index_name, frame[c].k)]
    /\ pc' = [pc EXCEPT ![c] = "retry"]
    /\ UNCHANGED <<clientvars, index_result_limit_k, sent, received,
                   outcome, probed>>

\* Lines 183-185: the k of the search that is sent again.
fn_corrected_k(c) ==
    /\ pc[c] = "corrected_k"
    /\ frame' = [frame EXCEPT ![c].body.must[1].k =
                    corrected_k(frame[c].index_name, frame[c].k)]
    /\ pc' = [pc EXCEPT ![c] = "retry"]
    /\ UNCHANGED <<clientvars, index_result_limit_k, sent, received,
                   outcome, probed>>

\* Lines 186-188: the search sent again; its hits replace the first ones.
fn_retry(c) ==
    /\ pc[c] = "retry"
    /\ \E resp \in Responses(frame[c].fg, frame[c].index_name) :
          Search(c, frame[c], sent[c], received[c], resp, "L186", "return")
    /\ UNCHANGED <<clientvars, index_result_limit_k, probed>>

\* Lines 191-200: the hits of `results`, rewritten and coerced.
fn_return(c) ==
    /\ pc[c] = "return"
    /\ LET rows == RewriteHits(frame[c].results, 1, frame[c].fg)
       IN  outcome' = [outcome EXCEPT ![c] =
                          IF rows.err # "" THEN Raised("L194") ELSE Returned(rows.val)]
    /\ pc' = [pc EXCEPT ![c] = "done"]
    /\ UNCHANGED <<clientvars, index_result_limit_k, frame, sent,
                   received, probed>>

(***************************************************************************)
(* read (): one search by key values, or by the existence of a primary     *)
(* key column.                                                             *)
(***************************************************************************)
KeysArgs == {EmptyDict, ("id" :> IntV(1)), ("key" :> IntV(1)), ("nokey" :> IntV(1))}

PkArgs == {"None", "id"}

\* _get_vector_db_index_name (fg_id)
get_vector_db_index_name(fg_id) ==
    IF fg_id \notin DOMAIN fg_embedding_map THEN Raise("L362")
    ELSE Ok(fg_embedding_map[fg_id].index_name)

\* Lines 312-337: the frame of the call with the request body built, or the
\* line that raises.
read_request(fg_id, keys, pk, index_name, n) ==
    IF fg_id \notin DOMAIN fg_vdb_col_fg_col_map THEN Raise("L313")
    ELSE LET index == IF index_name = "None" THEN get_vector_db_index_name(fg_id)
                      ELSE Ok(index_name)
             vdb_keys == rewrite_result_key(keys, fg_col_vdb_col_map[fg_id])
             fr == [op |-> "read", fg |-> fg_id, col_name |-> "", k |-> n,
                    filter |-> NoFilter, index_name |-> index.val,
                    body |-> NoBody, results |-> <<>>]
         IN  IF index.err # "" THEN index
             ELSE IF keys # EmptyDict
             THEN IF vdb_keys.err # "" THEN Raise("L322")
                  ELSE Ok([fr EXCEPT !.body =
                             [size |-> 0,
                              must |-> SetToSeq({[q |-> "match", field |-> key,
                                                  value |-> vdb_keys.val[key]] :
                                                   key \in DOMAIN vdb_keys.val}),
                              source |-> SourceProjection(fg_id)]])
             ELSE IF pk = "None" THEN Raise("L331")
             ELSE Ok([fr EXCEPT !.body =
                        [size |-> n, must |-> <<[q |-> "exists", field |-> pk]>>,
                         source |-> SourceProjection(fg_id)]])

\* Lines 312-345: the checks, the request body, the search and the rows.
read(c, fg_id, keys, pk, index_name, n) ==
    /\ CanCall(c)
    /\ LET req == read_request(fg_id, keys, pk, index_name, n)
       IN  IF req.err # ""
           THEN RaiseBeforeRequest(c, "read", req.err)
           ELSE \E resp \in Responses(fg_id, req.val.index_name) :
                  LET rows == RewriteHits(resp.hits, 1, fg_id)
                  IN  /\ sent' = [sent EXCEPT ![c] =
                                    <<[index |-> req.val.index_name, body |-> req.val.body]>>]
                      /\ received' = [received EXCEPT ![c] =
                                        Receive(NoneReceived(index_result_limit_k), resp)]
                      /\ frame' = [frame EXCEPT ![c] = [req.val EXCEPT !.results = resp.hits]]
                      /\ pc' = [pc EXCEPT ![c] = "done"]
                      /\ outcome' = [outcome EXCEPT ![c] =
                                       IF resp.kind = "error" THEN Raised("L338")
                                       ELSE IF rows.err # "" THEN Raised("L341")
                                       ELSE Returned(rows.val)]
    /\ UNCHANGED <<clientvars, index_result_limit_k, probed>>

(***************************************************************************)
(* The specifications.                                                     *)
(***************************************************************************)
\* __init__ (query, serving_keys) before init (): every map is empty.
NewClient(q, sks, db) ==
    /\ query = q
    /\ serving_keys = sks
    /\ serving_key_by_serving_index = EmptyDict
    /\ vector_db = db
    /\ phase = "new"
    /\ embedding_features = {}
    /\ fg_vdb_col_fg_col_map = EmptyDict
    /\ fg_col_vdb_col_map = EmptyDict
    /\ fg_vdb_col_td_col_map = EmptyDict
    /\ fg_id_to_vdb_pks = EmptyDict
    /\ fg_embedding_map = EmptyDict
    /\ embedding_fg_by_join_index = EmptyDict
    /\ td_embedding_feature_names = {}
    /\ index_result_limit_k = NoLimits
    /\ pc = [c \in Callers |-> "idle"]
    /\ frame = [c \in Callers |-> NoFrame]
    /\ sent = [c \in Callers |-> <<>>]
    /\ received = [c \in Callers |-> NoneReceived(NoLimits)]
    /\ outcome = [c \in Callers |-> NoOutcome]
    /\ probed = {}

\* A client without serving keys, on a vector database that answers any way.
New(q) == NewClient(q, <<>>, "any")

Scan(fg, left_features, prefix) ==
    [fg |-> fg, left_features |-> left_features, prefix |-> prefix]

\* The queries the calls are explored on: one embedding in a project index
\* with the primary key not selected; two embeddings, one behind a join
\* prefix; no embedding; the same embedding feature group twice; an
\* embedding reached through a join only.
ProtocolQueries ==
    {<<Scan(1, {"ts", "emb"}, "")>>,
     <<Scan(2, {"key", "day", "vec"}, ""), Scan(1, {"id", "ts"}, "j_")>>,
     <<Scan(3, {"id", "x"}, "")>>,
     <<Scan(1, {"id"}, ""), Scan(1, {"emb"}, "j_")>>,
     <<Scan(3, {"x"}, ""), Scan(4, {"emb"}, "")>>}

Init == \E q \in ProtocolQueries : New(q)

\* The calls of one caller, one after the other.
Next ==
    \/ init
    \/ \E feature \in FeatureArgs, index_name \in IndexNameArgs, k \in KValues,
          filter \in FilterArgs : find_neighbors(1, feature, index_name, k, filter)
    \/ fn_overfetch_test(1)
    \/ fn_probe(1)
    \/ fn_corrected_k(1)
    \/ fn_retry(1)
    \/ fn_return(1)
    \/ \E fg_id \in FgIds, keys \in KeysArgs, pk \in PkArgs,
          index_name \in IndexNameArgs, n \in KValues :
          read(1, fg_id, keys, pk, index_name, n)
    \/ leave(1)

Spec == Init /\ [][Next]_vars

\* The construction alone, over every query of the bounds.
InitMapper == \E q \in Queries : New(q)

NextMapper == init

SpecMapper == InitMapper /\ [][NextMapper]_vars

(***************************************************************************)
(* The namespace maps (claims C7, C8, C9), checked under SpecMapper.       *)
(***************************************************************************)
\* The positions of the query that scan a feature group with an embedding index.
EmbeddingScans == {i \in DOMAIN query : HasEmbedding(query[i].fg)}

\* Some feature group with an embedding index is scanned more than once.
DuplicateEmbeddingJoin ==
    \E i, j \in EmbeddingScans : i # j /\ query[i].fg = query[j].fg

\* The prefixed columns of the names ns of feature group g.
Prefixed(g, ns) == {ColPrefix(g) \o n : n \in ns}

\* C7: in a constructed client, every feature group with an embedding index has
\* its maps, every column of its _source projection -- the prefixed selected
\* features and the prefixed primary keys, selected or not -- is a key of its
\* physical-to-final map, and no row made of columns of the projection fails
\* to be rewritten.
C7_ProjectionIsMapped ==
    phase = "ready" =>
       \A i \in EmbeddingScans :
          LET g == query[i].fg
          IN  /\ g \in DOMAIN fg_vdb_col_fg_col_map
              /\ g \in DOMAIN fg_vdb_col_td_col_map
              /\ SourceProjection(g) = Prefixed(g, query[i].left_features)
                                         \cup Prefixed(g, PrimaryKeys(g))
              /\ SourceProjection(g) \subseteq DOMAIN fg_vdb_col_td_col_map[g]
              /\ \A cols \in SUBSET SourceProjection(g) :
                    rewrite_result_key([c \in cols |-> NullV],
                                       fg_vdb_col_td_col_map[g]).err = ""

\* A constructed client with a primary key that is not a selected feature.
C7_Witness ==
    /\ phase = "ready"
    /\ \E i \in EmbeddingScans :
          /\ PrimaryKeys(query[i].fg) \ query[i].left_features # {}
          /\ query[i].left_features # {}

\* The keys of the physical-to-final maps of the client, all feature groups together.
FinalMapKeys ==
    UNION {DOMAIN fg_vdb_col_td_col_map[g] : g \in DOMAIN fg_vdb_col_td_col_map}

\* C8 as stated: the keys of the physical-to-final map are exactly the
\* prefixed selected features and the prefixed primary keys of the feature
\* groups with an embedding index.
C8_KeysAreSelectedAndPk ==
    phase = "ready" =>
       FinalMapKeys = UNION {Prefixed(query[i].fg, ScanColumns(query[i])) :
                               i \in EmbeddingScans}

\* C8 as amended: the keys of the physical-to-final map are exactly the
\* prefixed columns of every feature of the feature groups with an embedding
\* index, selected or not; the prefixed selected features and primary keys
\* are among them.
C8_KeysAreAllFeatures ==
    phase = "ready" =>
       /\ DOMAIN fg_vdb_col_td_col_map = {query[i].fg : i \in EmbeddingScans}
       /\ \A g \in DOMAIN fg_vdb_col_td_col_map :
             DOMAIN fg_vdb_col_td_col_map[g] = Prefixed(g, FeatureGroups[g].features)
       /\ FinalMapKeys = UNION {Prefixed(query[i].fg, FeatureGroups[query[i].fg].features) :
                                  i \in EmbeddingScans}
       /\ UNION {Prefixed(query[i].fg, ScanColumns(query[i])) : i \in EmbeddingScans}
             \subseteq FinalMapKeys

\* A constructed client of a query with a join and a feature that is neither
\* selected nor a primary key.
C8_Witness ==
    /\ phase = "ready"
    /\ Len(query) > 1
    /\ \E i \in EmbeddingScans :
          FeatureGroups[query[i].fg].features \ ScanColumns(query[i]) # {}

\* C9: the construction fails exactly when a feature group with an embedding
\* index is scanned more than once, and a constructed client registers every
\* such feature group under exactly one join index, the one of its scan.
C9_NoDuplicateEmbeddingJoin ==
    /\ phase = "failed" <=> (phase # "new" /\ DuplicateEmbeddingJoin)
    /\ phase = "ready" =>
          /\ DOMAIN embedding_fg_by_join_index = {i - 1 : i \in EmbeddingScans}
          /\ \A i \in EmbeddingScans :
                /\ embedding_fg_by_join_index[i - 1] = query[i].fg
                /\ Cardinality({j \in DOMAIN embedding_fg_by_join_index :
                                  embedding_fg_by_join_index[j] = query[i].fg}) = 1

\* The construction of a query that joins an embedding feature group to itself
\* has failed.
C9_Witness ==
    /\ phase = "failed"
    /\ Len(query) = 2
    /\ query[1].fg = query[2].fg

(***************************************************************************)
(* The search protocol (claims C1 to C6), checked under Spec.              *)
(***************************************************************************)
\* The request is a probe: its knn clause asks for 2**31 - 1 neighbours.
IsProbe(req) == req.body.must[1].q = "knn" /\ req.body.must[1].k = ProbeK

LastSent(c) == sent[c][Len(sent[c])]

\* How a call ends that rewrites the hits of its last response.
EndsWithRowsOfLast(c, site) ==
    LET rows == RewriteHits(received[c].last.hits, 1, frame[c].fg)
    IN  outcome[c] = IF rows.err # "" THEN Raised(site) ELSE Returned(rows.val)

\* The first response of a call of find_neighbors on a project index was short.
ShortInProjectIndex(c) ==
    /\ frame[c].op = "find_neighbors"
    /\ received[c].first_kind = "hits"
    /\ ColPrefix(frame[c].fg) # ""
    /\ received[c].first_len # frame[c].k

\* C1: when find_neighbors searched a project index, its first response held a
\* number of hits other than k and a ceiling is cached for the index name
\* (reported by the probe of this call or cached before), the search sent
\* again asks for min (ceiling, 3 * k) neighbours, and the call ends with the
\* hits of that search: their rows, or the exception they raise.
C1_RetryUsesCorrectedK ==
    \A c \in Callers :
       LET fr == frame[c]
           limit == index_result_limit_k[fr.index_name]
       IN  /\ (ShortInProjectIndex(c) /\ pc[c] = "retry" /\ limit # 0) =>
                 fr.body.must[1].k = Min(limit, 3 * fr.k)
           /\ (ShortInProjectIndex(c) /\ pc[c] = "done" /\ limit # 0) =>
                 /\ Len(sent[c]) \in {2, 3}
                 /\ Len(sent[c]) = 3 => IsProbe(sent[c][2])
                 /\ LastSent(c).index = fr.index_name
                 /\ LastSent(c).body.must[1] =
                       [q |-> "knn", field |-> fr.col_name, k |-> Min(limit, 3 * fr.k)]
                 /\ IF received[c].last.kind = "error"
                    THEN outcome[c] = Raised("L186")
                    ELSE EndsWithRowsOfLast(c, "L194")

\* A call probed, the probe reported a ceiling below 3 * k, and the call
\* returned the two rows of the search it sent again.
C1_Witness ==
    /\ pc[1] = "done"
    /\ ShortInProjectIndex(1)
    /\ Len(sent[1]) = 3
    /\ index_result_limit_k[frame[1].index_name] < 3 * frame[1].k
    /\ LastSent(1).body.must[1].k = index_result_limit_k[frame[1].index_name]
    /\ received[1].first_len = 0
    /\ outcome[1].status = "returned"
    /\ Len(outcome[1].rows) = 2

\* Caller c sends a probe in this step.
SendsProbe(c) == pc[c] = "probe" /\ pc'[c] # "probe"

\* C2 as stated: no index name is probed twice, and a call that fetches more
\* from an index name probed before goes straight to the corrected k.
C2_OneProbePerIndexName ==
    [][\A c \in Callers :
          /\ SendsProbe(c) => frame[c].index_name \notin probed
          /\ (pc[c] = "test" /\ pc'[c] # "return" /\ frame[c].index_name \in probed)
                => pc'[c] = "corrected_k"]_vars

\* C2 as amended: once a ceiling is cached for an index name no probe is sent
\* to it any more -- a call that fetches more from it goes straight to the
\* corrected k, and sends the first search and the corrected search only --
\* and the cached ceiling never changes; a probe is sent only while no
\* ceiling is cached, also to an index name probed before.
C2_NoProbeOnceCached ==
    [][\A c \in Callers :
          LET index_name == frame[c].index_name
          IN  /\ SendsProbe(c) => index_result_limit_k[index_name] = 0
              /\ (pc[c] = "test" /\ pc'[c] # "return"
                    /\ index_result_limit_k[index_name] # 0)
                    => pc'[c] = "corrected_k" /\ Len(sent[c]) = 1
              /\ (pc[c] = "retry" /\ received[c].limit_at_call[index_name] # 0)
                    => Len(sent'[c]) = 2 /\ ~IsProbe(sent'[c][2])
              /\ \A i \in IndexNames :
                    index_result_limit_k[i] # 0 =>
                       index_result_limit_k'[i] = index_result_limit_k[i]]_vars

\* A later call on an index name whose ceiling is cached fetched more with two
\* requests.
C2_Witness ==
    /\ pc[1] = "done"
    /\ ShortInProjectIndex(1)
    /\ frame[1].index_name \in probed
    /\ received[1].limit_at_call[frame[1].index_name] # 0
    /\ Len(sent[1]) = 2
    /\ outcome[1].status = "returned"

\* C3: when the column prefix is empty or the first response holds exactly k
\* hits, find_neighbors sends one search request only, ends with the hits of
\* that response, and leaves every cached ceiling as it was.
C3_NoOverfetch ==
    \A c \in Callers :
       LET fr == frame[c]
       IN  (/\ fr.op = "find_neighbors"
            /\ pc[c] \in {"return", "done"}
            /\ received[c].first_kind = "hits"
            /\ (ColPrefix(fr.fg) = "" \/ received[c].first_len = fr.k)) =>
              /\ Len(sent[c]) = 1
              /\ ~IsProbe(sent[c][1])
              /\ Len(received[c].last.hits) = received[c].first_len
              /\ fr.results = received[c].last.hits
              /\ pc[c] = "done" => EndsWithRowsOfLast(c, "L194")
              /\ index_result_limit_k = received[c].limit_at_call

\* A short first response of an index without column prefix was returned as it is.
C3_Witness ==
    /\ pc[1] = "done"
    /\ frame[1].op = "find_neighbors"
    /\ received[1].first_kind = "hits"
    /\ ColPrefix(frame[1].fg) = ""
    /\ frame[1].k = 2
    /\ received[1].first_len = 1
    /\ Len(sent[1]) = 1
    /\ outcome[1].status = "returned"
    /\ Len(outcome[1].rows) = 1

\* The error is "requested k too large" and carries the maximum k.
KTooLargeWithMaxK(resp) ==
    /\ resp.kind = "error"
    /\ resp.exc = "VectorDatabaseException"
    /\ resp.reason = "REQUESTED_K_TOO_LARGE"
    /\ resp.info_k > 0

\* C4: an error answer to a search of find_neighbors, other than a "requested k
\* too large" error with a maximum k answering the probe, ends the call with
\* that exception.  After such an answer to the probe no search is sent again
\* and no ceiling is cached for the index name; after such an answer to the
\* first search no ceiling has changed; after such an answer to the search
\* sent again the ceilings are what the probe of the call left.
C4_ErrorsPropagateUncached ==
    \A c \in Callers :
       LET fr == frame[c]
           rcv == received[c]
       IN  (/\ fr.op = "find_neighbors"
            /\ Len(sent[c]) >= 1
            /\ rcv.last.kind = "error"
            /\ ~(IsProbe(LastSent(c)) /\ KTooLargeWithMaxK(rcv.last))) =>
              /\ pc[c] = "done"
              /\ outcome[c].status = "raised"
              /\ outcome[c].rows = <<>>
              /\ \A i \in IndexNames \ {fr.index_name} :
                    index_result_limit_k[i] = rcv.limit_at_call[i]
              /\ CASE Len(sent[c]) = 1 ->
                        /\ outcome[c].site = "L152"
                        /\ index_result_limit_k = rcv.limit_at_call
                   [] Len(sent[c]) > 1 /\ IsProbe(LastSent(c)) ->
                        /\ outcome[c].site \in {"L168", "L182"}
                        /\ Len(sent[c]) = 2
                        /\ index_result_limit_k[fr.index_name] = 0
                        /\ index_result_limit_k = rcv.limit_at_call
                   [] OTHER ->
                        /\ outcome[c].site = "L186"
                        /\ \/ index_result_limit_k = rcv.limit_at_call
                           \/ /\ Len(sent[c]) = 3
                              /\ IsProbe(sent[c][2])
                              /\ rcv.limit_at_call[fr.index_name] = 0

\* The probe was answered by a "requested k too large" error without a maximum
\* k, and the call ended with it.
C4_Witness ==
    /\ pc[1] = "done"
    /\ frame[1].op = "find_neighbors"
    /\ Len(sent[1]) = 2
    /\ IsProbe(sent[1][2])
    /\ received[1].last.reason = "REQUESTED_K_TOO_LARGE"
    /\ received[1].last.info_k = 0
    /\ outcome[1] = Raised("L182")
    /\ index_result_limit_k[frame[1].index_name] = 0

\* The lines that raise a caller or configuration error: no or more than one
\* embedding feature, not an embedding feature, a filter leaf of another
\* feature group, a filter that is no Filter or Logic, an undefined composite
\* type or condition, a feature group without embedding, a read key that is
\* no column, no pk, no embedding of the feature group.
CallerErrorSites ==
    {"L118", "L120", "L125", "L223", "L230", "L276", "L278", "L298",
     "L313", "L322", "L331", "L362"}

\* C5: a call of find_neighbors or read that ends in a caller or configuration
\* error has sent no request and received no response.
C5_CallerErrorsBeforeRequest ==
    \A c \in Callers :
       (/\ pc[c] = "done"
        /\ outcome[c].status = "raised"
        /\ outcome[c].site \in CallerErrorSites) =>
          /\ sent[c] = <<>>
          /\ received[c].first_kind = "none"

\* A call with a filter leaf of another feature group, two composites deep,
\* that passed the choice of the embedding feature, has ended.
C5_Witness ==
    /\ pc[1] = "done"
    /\ frame[1].op = "find_neighbors"
    /\ outcome[1] = Raised("L223")
    /\ embedding_features # {}
    /\ sent[1] = <<>>

\* The type the schema declares for a final name ("" when it has none).
DeclaredType(name) ==
    LET fs == {f \in Range(SchemaOf(query, 1)) : f.name = name}
    IN  IF fs = {} THEN "" ELSE (CHOOSE f \in fs : TRUE).type

\* A raw value as the declared type of its final name has it: milliseconds
\* become a date or a point in time, base64 text becomes bytes; null, 0 and a
\* value of any other column stay as they are.
ValueAsDeclared(name, value) ==
    IF value.t # "int" \/ value.v = 0 THEN value
    ELSE CASE DeclaredType(name) = "date" ->
                 [t |-> "date", v |-> value.v \div 86400000]
           [] DeclaredType(name) = "timestamp" ->
                 [t |-> "datetime", v |-> value.v \div 1000]
           [] DeclaredType(name) = "binary" -> [t |-> "bytes", v |-> value.v]
           [] OTHER -> value

\* A call of find_neighbors or read that came to rewrite the hits of its last
\* response ended as claim C6 says; `coerced` says which value a returned
\* entry carries: the raw one, or the raw one as its declared type has it.
RowsKeepEveryColumn(c, coerced) ==
    LET fr == frame[c]
        hits == received[c].last.hits
        rows == outcome[c].rows
    IN  (/\ pc[c] = "done"
         /\ fr.op \in {"find_neighbors", "read"}
         /\ received[c].last.kind = "hits") =>
           LET key_map == fg_vdb_col_td_col_map[fr.fg]
           IN  IF \E i \in 1..Len(hits) : \E key \in DOMAIN hits[i] :
                     key \notin DOMAIN key_map
               THEN /\ outcome[c].status = "raised"
                    /\ outcome[c].site \in {"L194", "L341"}
                    /\ rows = <<>>
               ELSE /\ outcome[c].status = "returned"
                    /\ Len(rows) = Len(hits)
                    /\ \A i \in 1..Len(hits) :
                          /\ DOMAIN rows[i] = {key_map[key] : key \in DOMAIN hits[i]}
                          /\ Cardinality(DOMAIN rows[i]) = Cardinality(DOMAIN hits[i])
                          /\ \A key \in DOMAIN hits[i] :
                                rows[i][key_map[key]] =
                                   IF coerced
                                   THEN ValueAsDeclared(key_map[key], hits[i][key])
                                   ELSE hits[i][key]

RowValues == {0, 1, 2, 5}

\* The rows of feature group fg, by local column name.
LocalRows(fg) == [FeatureGroups[fg].features -> RowValues]

\* The document the index holds for a row: its values by physical column.
PhysicalDoc(fg, row) ==
    [col \in DOMAIN fg_vdb_col_fg_col_map[fg] |-> row[fg_vdb_col_fg_col_map[fg][col]]]

\* A comparison leaf on the value x of its column.
Compare(condition, x, value) ==
    CASE condition = "EQ" -> x \in value
      [] condition = "NE" -> x \notin value
      [] condition = "IN" -> x \in value
      [] condition = "GT" -> \A v \in value : x > v
      [] condition = "GE" -> \A v \in value : x >= v
      [] condition = "LT" -> \A v \in value : x < v
      [] condition = "LE" -> \A v \in value : x <= v

\* The tree evaluated on a row.
RECURSIVE EvalTree(_, _)
EvalTree(filter, row) ==
    IF filter.node = "None" THEN TRUE
    ELSE IF filter.node = "Filter"
         THEN Compare(filter.condition, row[filter.name], filter.value)
    ELSE CASE filter.type = "AND" ->
                 EvalTree(filter.left, row) /\ EvalTree(filter.right, row)
           [] filter.type = "OR" ->
                 EvalTree(filter.left, row) \/ EvalTree(filter.right, row)
           [] filter.type = "SINGLE" ->
                 IF filter.left # NoFilter THEN EvalTree(filter.left, row)
                 ELSE EvalTree(filter.right, row)

\* A range clause with one bound on the value x of its field.
InRange(op, x, v) ==
    CASE op = "gt" -> x > v
      [] op = "gte" -> x >= v
      [] op = "lt" -> x < v
      [] op = "lte" -> x <= v

\* A native clause evaluated on a document, as the index evaluates it: a
\* clause on a field that the document does not hold matches nothing.
RECURSIVE EvalClause(_, _)
EvalClause(clause, doc) ==
    CASE clause.q \in {"term", "terms"} ->
            clause.field \in DOMAIN doc /\ doc[clause.field] \in clause.value
      [] clause.q = "range" ->
            /\ clause.field \in DOMAIN doc
            /\ \A v \in clause.value : InRange(clause.op, doc[clause.field], v)
      [] clause.q = "exists" -> clause.field \in DOMAIN doc
      [] clause.q = "bool" ->
            /\ \A i \in 1..Len(clause.must) : EvalClause(clause.must[i], doc)
            /\ clause.minimum_should_match = 1 =>
                  \E i \in 1..Len(clause.should) : EvalClause(clause.should[i], doc)
            /\ \A i \in 1..Len(clause.must_not) : ~EvalClause(clause.must_not[i], doc)

\* The clauses of the filter in a request body of find_neighbors: what
\* follows the knn clause and the exists clause.
FilterClauses(body) == SubSeq(body.must, 3, Len(body.must))

\* C10: the clauses that find_neighbors compiled from the filter of the call
\* accept the document of a row exactly when the filter, evaluated on the row,
\* accepts it -- for every row of the bounded value domain.
C10_CompiledFilterKeepsMeaning ==
    \A c \in Callers :
       (frame[c].op = "find_neighbors" /\ Len(sent[c]) >= 1) =>
          LET clauses == FilterClauses(sent[c][1].body)
          IN  \A row \in LocalRows(frame[c].fg) :
                 (\A i \in 1..Len(clauses) :
                     EvalClause(clauses[i], PhysicalDoc(frame[c].fg, row)))
                 <=> EvalTree(frame[c].filter, row)

(***************************************************************************)
(* filter_entry_by_join_index () and the serving keys (claim C13).         *)
(***************************************************************************)
\* hsfs.serving_key.ServingKey
ServingKey(feature_name, required_serving_key, join_index) ==
    [feature_name |-> feature_name, required_serving_key |-> required_serving_key,
     join_index |-> join_index]

\* The serving keys a client may be given: none; one of the primary scan; two
\* of the primary scan and one of the first join, behind its prefix.
ServingKeyArgs ==
    {<<>>,
     <<ServingKey("id", "id", 0)>>,
     <<ServingKey("key", "key", 0), ServingKey("day", "day", 0),
       ServingKey("id", "j_id", 1)>>}

\* The entries a caller may pass: any of the names may be missing, null, 0 or
\* another number.
EntryArgs ==
    UNION {[S -> {NullV, IntV(0), IntV(1), IntV(2)}] :
             S \in SUBSET {"id", "j_id", "key", "day"}}

JoinIndexArgs == {0, 1, 2}

\* Lines 387-399, the property serving_key_by_serving_index: the map as it
\* is when it holds an entry, else the serving keys grouped by join index.
get_serving_key_by_serving_index ==
    IF DOMAIN serving_key_by_serving_index # {} THEN serving_key_by_serving_index
    ELSE [j \in {serving_keys[i].join_index : i \in DOMAIN serving_keys} |->
            SelectSeq(serving_keys, LAMBDA sk : sk.join_index = j)]

\* entry.get (key)
entry_get(entry, key) == IF key \in DOMAIN entry THEN entry[key] ELSE NullV

\* a or b: b when a is None, 0 or another false value.
python_or(a, b) == IF Falsy(a) THEN b ELSE a

\* Lines 370-376: the loop over the serving keys of the join index, from key
\* n on; it stops at the first key that resolves to None.
RECURSIVE filter_entry_loop(_, _, _, _)
filter_entry_loop(sks, n, entry, fg_entry) ==
    IF n > Len(sks) THEN [complete |-> TRUE, fg_entry |-> fg_entry]
    ELSE LET sk == sks[n]
             value == python_or(entry_get(entry, sk.required_serving_key),
                                entry_get(entry, sk.feature_name))
             next == (sk.feature_name :> value) @@ fg_entry
         IN  IF value = NullV THEN [complete |-> FALSE, fg_entry |-> next]
             ELSE filter_entry_loop(sks, n + 1, entry, next)

\* filter_entry_by_join_index (entry, join_index); the frame keeps the entry
\* as `results` and the join index as `k`, the outcome holds the pair
\* returned as its one row, or the KeyError of line 370.
filter_entry_by_join_index(c, entry, join_index) ==
    /\ CanCall(c)
    /\ LET by_index == get_serving_key_by_serving_index
       IN  /\ serving_key_by_serving_index' = by_index
           /\ outcome' = [outcome EXCEPT ![c] =
                 IF join_index \notin DOMAIN by_index THEN Raised("L370")
                 ELSE Returned(<<filter_entry_loop(by_index[join_index], 1, entry,
                                                   EmptyDict)>>)]
    /\ pc' = [pc EXCEPT ![c] = "done"]
    /\ frame' = [frame EXCEPT ![c] =
                   [NoFrame EXCEPT !.op = "filter_entry_by_join_index",
                                   !.k = join_index, !.results = <<entry>>]]
    /\ received' = [received EXCEPT ![c] = NoneReceived(index_result_limit_k)]
    /\ UNCHANGED <<given, phase, mapvars, index_result_limit_k, probed, sent>>

InitServing ==
    \E q \in ProtocolQueries, sks \in ServingKeyArgs : NewClient(q, sks, "any")

NextServing ==
    \/ init
    \/ \E entry \in EntryArgs, join_index \in JoinIndexArgs :
          filter_entry_by_join_index(1, entry, join_index)
    \/ leave(1)

SpecServing == InitServing /\ [][NextServing]_vars

\* The serving keys registered for join index i, in their order.
RegisteredFor(i) == SelectSeq(serving_keys, LAMBDA sk : sk.join_index = i)

\* The entry holds a value other than null under the name.
HasValue(entry, name) == name \in DOMAIN entry /\ entry[name] # NullV

\* C13: for a join index i that serving keys are registered for,
\* filter_entry_by_join_index (entry, i) returns complete = False exactly when some serving key registered for i has a non-null value in
\* entry neither under its required serving-key name nor under its feature
\* name; otherwise it returns complete = True and the mapping that holds, for
\* every serving key registered for i, under the feature name the value that
\* entry has under the required serving-key name, or else the value it has
\* under the feature name.
C13_CompleteEntry ==
    \A c \in Callers :
       (/\ pc[c] = "done"
        /\ frame[c].op = "filter_entry_by_join_index"
        /\ RegisteredFor(frame[c].k) # <<>>) =>
          LET entry == frame[c].results[1]
              sks == Range(RegisteredFor(frame[c].k))
          IN  /\ outcome[c].status = "returned"
              /\ LET got == outcome[c].rows[1]
                 IN  IF \E sk \in sks : /\ ~HasValue(entry, sk.required_serving_key)
                                        /\ ~HasValue(entry, sk.feature_name)
                     THEN got.complete = FALSE
                     ELSE /\ got.complete = TRUE
                          /\ got.fg_entry =
                                [name \in {sk.feature_name : sk \in sks} |->
                                   LET sk == CHOOSE k \in sks : k.feature_name = name
                                   IN  IF HasValue(entry, sk.required_serving_key)
                                       THEN entry[sk.required_serving_key]
                                       ELSE entry[sk.feature_name]]

(***************************************************************************)
(* count (), and every operation on one client (claim C14).                *)
(***************************************************************************)
\* What may come back to a count request: a number of documents or an error.
CountResponses(index_name) ==
    {[kind |-> "count", hits |-> <<>>, exc |-> "", reason |-> "", info_k |-> n] :
       n \in 0..MaxHits}
    \cup ErrorResponses(index_name)

\* Lines 348-357: the frame of the call with the request body built, or the
\* line that raises: the KeyError of a feature group without physical
\* primary keys, or _get_vector_db_index_name.
count_request(fg_id) ==
    IF fg_id \notin DOMAIN fg_id_to_vdb_pks THEN Raise("L351")
    ELSE LET index == get_vector_db_index_name(fg_id)
         IN  IF index.err # "" THEN index
             ELSE Ok([NoFrame EXCEPT
                        !.op = "count", !.fg = fg_id, !.index_name = index.val,
                        !.body = [size |-> 0,
                                  must |-> <<[q |-> "exists",
                                              field |-> fg_id_to_vdb_pks[fg_id][1]]>>,
                                  source |-> {}]])

\* count (fg): the number the index answers is the one row of the outcome.
count(c, fg_id) ==
    /\ CanCall(c)
    /\ LET req == count_request(fg_id)
       IN  IF req.err # ""
           THEN RaiseBeforeRequest(c, "count", req.err)
           ELSE \E resp \in CountResponses(req.val.index_name) :
                  /\ sent' = [sent EXCEPT ![c] =
                                <<[index |-> req.val.index_name, body |-> req.val.body]>>]
                  /\ received' = [received EXCEPT ![c] =
                                    Receive(NoneReceived(index_result_limit_k), resp)]
                  /\ frame' = [frame EXCEPT ![c] = req.val]
                  /\ pc' = [pc EXCEPT ![c] = "done"]
                  /\ outcome' = [outcome EXCEPT ![c] =
                                   IF resp.kind = "error" THEN Raised("L355")
                                   ELSE Returned(<<resp.info_k>>)]
    /\ UNCHANGED <<clientvars, index_result_limit_k, probed>>

\* Every operation on one client that was given serving keys, one call after
\* the other; the arguments are fewer than in Spec, the answers of the index
\* are the same.
InitFrame ==
    \E q \in ProtocolQueries :
       NewClient(q, <<ServingKey("key", "key", 0), ServingKey("id", "j_id", 1)>>, "any")

NextFrame ==
    \/ init
    \/ \E feature \in {NoFeature, [fg |-> 2, name |-> "vec"]},
          index_name \in IndexNameArgs, k \in KValues,
          filter \in {NoFilter, OtherFilter} :
          find_neighbors(1, feature, index_name, k, filter)
    \/ fn_overfetch_test(1)
    \/ fn_probe(1)
    \/ fn_corrected_k(1)
    \/ fn_retry(1)
    \/ fn_return(1)
    \/ \E fg_id \in FgIds, keys \in {EmptyDict, ("nokey" :> IntV(1))},
          index_name \in IndexNameArgs :
          read(1, fg_id, keys, "id", index_name, 1)
    \/ \E fg_id \in FgIds : count(1, fg_id)
    \/ \E entry \in {EmptyDict, ("j_id" :> IntV(1)), ("key" :> IntV(1))},
          join_index \in JoinIndexArgs :
          filter_entry_by_join_index(1, entry, join_index)
    \/ leave(1)

SpecFrame == InitFrame /\ [][NextFrame]_vars

\* C14: once the client is constructed, no step of a call of find_neighbors,
\* read, count or filter_entry_by_join_index, whether the call returns or
\* raises, changes the query, the serving keys or any map that init () built;
\* the ceiling cache changes only in a step of find_neighbors and only at the
\* index name of that call; the serving-key-by-join-index map changes only
\* in filter_entry_by_join_index, from empty to filled.
C14_CallsKeepTheMaps ==
    [][phase = "ready" =>
          /\ phase' = phase
          /\ given' = given
          /\ mapvars' = mapvars
          /\ \A i \in IndexNames :
                index_result_limit_k'[i] # index_result_limit_k[i] =>
                   \E c \in Callers :
                      /\ frame[c].op = "find_neighbors"
                      /\ frame[c].index_name = i
                      /\ pc'[c] # pc[c]
          /\ serving_key_by_serving_index' # serving_key_by_serving_index =>
                /\ serving_key_by_serving_index = EmptyDict
                /\ \E c \in Callers :
                      /\ pc[c] = "idle"
                      /\ frame'[c].op = "filter_entry_by_join_index"]_vars

\* A call of find_neighbors that named another index than the one of the
\* embedding has cached a ceiling, after filter_entry_by_join_index filled
\* the serving-key map; the maps are those that init () built.
C14_Witness ==
    /\ phase = "ready"
    /\ pc[1] = "done"
    /\ frame[1].op = "find_neighbors"
    /\ frame[1].index_name = "alt"
    /\ index_result_limit_k["alt"] # 0
    /\ received[1].limit_at_call["alt"] = 0
    /\ serving_key_by_serving_index # EmptyDict
    /\ fg_vdb_col_td_col_map = InitJoinMaps(query, 1,
          [td |-> EmptyDict, by_index |-> EmptyDict, names |-> {}, raised |-> FALSE]).td

(***************************************************************************)
(* Two callers of find_neighbors on one client (claim C15).  A caller may  *)
(* be overtaken between any two of its steps: between a search and the     *)
(* test of the cache, between the test and the probe, between the probe    *)
(* and the read of the cache for the corrected k.  The vector database     *)
(* reports its maximum k to every probe.                                   *)
(***************************************************************************)
InitConc == NewClient(<<Scan(1, {"ts", "emb"}, "")>>, <<>>, "reports_max_k")

NextConc ==
    \/ init
    \/ \E c \in Callers :
          \/ \E index_name \in IndexNameArgs, k \in KValues :
                find_neighbors(c, NoFeature, index_name, k, NoFilter)
          \/ fn_overfetch_test(c)
          \/ fn_probe(c)
          \/ fn_corrected_k(c)
          \/ fn_retry(c)
          \/ fn_return(c)
          \/ leave(c)

SpecConc == InitConc /\ [][NextConc]_vars

\* The probes among the requests that caller c sent in its call.
ProbesSent(c) == {n \in 1..Len(sent[c]) : IsProbe(sent[c][n])}

\* C15: with two callers of find_neighbors at once and a vector database
\* that reports its maximum k, the ceiling cache of an index name holds
\* nothing or that maximum; a call that fetched more has ended with the
\* maximum cached for its index name, has sent at most one probe, and its
\* last search asked for min (maximum, 3 * k) neighbours with its own k.
C15_RaceConverges ==
    /\ \A i \in IndexNames : index_result_limit_k[i] \in {0, IndexMaxK[i]}
    /\ \A c \in Callers :
          (pc[c] = "done" /\ ShortInProjectIndex(c)) =>
             LET i == frame[c].index_name
             IN  /\ index_result_limit_k[i] = IndexMaxK[i]
                 /\ Len(sent[c]) \in {2, 3}
                 /\ Cardinality(ProbesSent(c)) <= 1
                 /\ ProbesSent(c) \subseteq {2}
                 /\ Len(sent[c]) = 3 => ProbesSent(c) = {2}
                 /\ LastSent(c).body.must[1].k = Min(IndexMaxK[i], 3 * frame[c].k)
                 /\ outcome[c].status = "returned"

\* Both callers began with no ceiling cached for the one index name, both
\* sent the probe, and each has ended with the corrected k of its own k.
C15_Witness ==
    /\ pc[1] = "done" /\ pc[2] = "done"
    /\ ShortInProjectIndex(1) /\ ShortInProjectIndex(2)
    /\ frame[1].index_name = frame[2].index_name
    /\ frame[1].k # frame[2].k
    /\ received[1].limit_at_call[frame[1].index_name] = 0
    /\ received[2].limit_at_call[frame[1].index_name] = 0
    /\ ProbesSent(1) = {2} /\ ProbesSent(2) = {2}
    /\ index_result_limit_k[frame[1].index_name] = IndexMaxK[frame[1].index_name]

(***************************************************************************)
(* The columns the compiled filter names (claim C11), checked under Spec.  *)
(***************************************************************************)
\* The fields that the leaves of a native clause name.
RECURSIVE LeafFields(_)
LeafFields(clause) ==
    IF clause.q = "bool"
    THEN UNION {LeafFields(clause.must[i]) : i \in 1..Len(clause.must)}
         \cup UNION {LeafFields(clause.should[i]) : i \in 1..Len(clause.should)}
         \cup UNION {LeafFields(clause.must_not[i]) : i \in 1..Len(clause.must_not)}
    ELSE {clause.field}

\* The names of the leaves of a filter tree.
RECURSIVE LeafNames(_)
LeafNames(filter) ==
    IF filter.node = "Filter" THEN {filter.name}
    ELSE IF filter.node = "Logic"
         THEN LeafNames(filter.left) \cup LeafNames(filter.right)
    ELSE {}

\* C11: in the request that find_neighbors built, every leaf of the compiled
\* filter names a physical column of the feature group -- the column prefix
\* of the embedding index followed by the name of a leaf of the tree --
\* whatever the shape of the tree: a leaf alone, under AND, under OR, under
\* SINGLE.
C11_LeavesNamePhysicalColumn ==
    \A c \in Callers :
       (frame[c].op = "find_neighbors" /\ Len(sent[c]) >= 1) =>
          LET clauses == FilterClauses(sent[c][1].body)
          IN  \A i \in 1..Len(clauses) :
                 LeafFields(clauses[i]) \subseteq
                    {ColPrefix(frame[c].fg) \o n : n \in LeafNames(frame[c].filter)}

(***************************************************************************)
(* _convert_to_pandas_type () on its own (claim C12): the schema is that   *)
(* of the query, the result any row over its final names.                  *)
(***************************************************************************)
\* The milliseconds tried for a date or timestamp column: the epoch itself,
\* less than a second, a second and a day after it, and two days and five
\* seconds after it.
CoerceMillis == {0, 999, 1000, 86400000, 172805000}

\* The values a result may hold under the final name of a schema feature.
CoerceValues(feature) ==
    IF feature.type \in {"date", "timestamp"}
    THEN {NullV} \cup {IntV(v) : v \in CoerceMillis}
    ELSE IF is_complex(feature.type) THEN {VecV}
    ELSE {IntV(8)}

\* The rows over the final names of schema features i and up: any of the
\* names may be missing.
RECURSIVE CoerceRows(_, _)
CoerceRows(schema, i) ==
    IF i > Len(schema) THEN {EmptyDict}
    ELSE LET rest == CoerceRows(schema, i + 1)
         IN  rest \cup {(schema[i].name :> v) @@ r :
                          v \in CoerceValues(schema[i]), r \in rest}

\* The results handed to _convert_to_pandas_type, whatever the query.
CoerceResults == UNION {CoerceRows(SchemaOf(q, 1), 1) : q \in ProtocolQueries}

\* A caller hands one result over the final names of the schema to
\* _convert_to_pandas_type (schema, result).
call_convert_to_pandas_type(c, result) ==
    /\ CanCall(c)
    /\ \A name \in DOMAIN result :
          \E f \in Range(SchemaOf(query, 1)) :
             f.name = name /\ result[name] \in CoerceValues(f)
    /\ pc' = [pc EXCEPT ![c] = "done"]
    /\ frame' = [frame EXCEPT ![c] =
                   [NoFrame EXCEPT !.op = "convert_to_pandas_type",
                                   !.results = <<result>>]]
    /\ outcome' = [outcome EXCEPT ![c] =
                     Returned(<<convert_to_pandas_type(SchemaOf(query, 1), 1, result)>>)]
    /\ UNCHANGED <<clientvars, index_result_limit_k, probed, sent, received>>

NextCoerce ==
    \/ init
    \/ \E result \in CoerceResults : call_convert_to_pandas_type(1, result)
    \/ leave(1)

SpecCoerce == Init /\ [][NextCoerce]_vars

\* C12: after _convert_to_pandas_type, under the final name of every date or
\* timestamp feature of the schema, a raw value of v >= 0 milliseconds has
\* become the calendar date, or the point in time, at v div 1000 seconds; a
\* null value is null and a missing one is missing as before.
C12_CoercesEveryNonNull ==
    \A c \in Callers :
       (pc[c] = "done" /\ frame[c].op = "convert_to_pandas_type") =>
          LET raw == frame[c].results[1]
              row == outcome[c].rows[1]
          IN  \A f \in Range(SchemaOf(query, 1)) :
                 f.type \in {"date", "timestamp"} =>
                    IF f.name \notin DOMAIN raw THEN f.name \notin DOMAIN row
                    ELSE IF raw[f.name] = NullV THEN row[f.name] = NullV
                    ELSE row[f.name] =
                            IF f.type = "date"
                            THEN [t |-> "date", v |-> (raw[f.name].v \div 1000) \div 86400]
                            ELSE [t |-> "datetime", v |-> raw[f.name].v \div 1000]

(***************************************************************************)
(* The requests of one call (claim C16), checked under Spec.               *)
(***************************************************************************)
\* A request body without the k of its knn clause.
BodyButKnnK(body) == [body EXCEPT !.must[1].k = 0]

\* C16: the search requests that one call of find_neighbors sent -- the first
\* search, the probe, the search sent again -- go to one index name and
\* differ in the k of the knn clause at most: the size is the k of the
\* caller, the knn clause is on the embedding column, and the exists clause,
\* the clauses of the filter and the projection are the same in all of them.
C16_RequestsDifferInKnnKOnly ==
    \A c \in Callers :
       frame[c].op = "find_neighbors" =>
          \A n \in 1..Len(sent[c]) :
             /\ sent[c][n].index = frame[c].index_name
             /\ sent[c][n].body.size = frame[c].k
             /\ sent[c][n].body.must[1].q = "knn"
             /\ sent[c][n].body.must[1].field = frame[c].col_name
             /\ sent[c][n].body.must[2] = [q |-> "exists", field |-> frame[c].col_name]
             /\ sent[c][n].body.source = DOMAIN fg_vdb_col_fg_col_map[frame[c].fg]
             /\ BodyButKnnK(sent[c][n].body) = BodyButKnnK(sent[c][1].body)

\* A call with a filter sent three requests: its first search with the k of
\* the caller, the probe, and a search with another k.
C16_Witness ==
    /\ pc[1] = "done"
    /\ frame[1].op = "find_neighbors"
    /\ frame[1].filter # NoFilter
    /\ Len(sent[1]) = 3
    /\ Len(sent[1][3].body.must) = 3
    /\ sent[1][1].body.must[1].k = frame[1].k
    /\ sent[1][2].body.must[1].k = ProbeK
    /\ sent[1][3].body.must[1].k = 3 * frame[1].k

====
